---- MODULE Spec2Model ----
(***************************************************************************)
(* PlaceFields (imaging/code/scratch/PlaceFields.py): occupancy map,       *)
(* per-neuron tuning curves, spatial information and the circular-shift    *)
(* significance test.                                                      *)
(*                                                                         *)
(* Numbers.  Positions (cm), timestamps (ms) and activity samples are      *)
(* integers.  A float that the code obtains by a division is kept exactly  *)
(* as a record [k, n, d]: k = "num" is the fraction n/d in lowest terms,   *)
(* k = "nan" is not-a-number, k = "inf" is +infinity.  A spatial           *)
(* information value is kept exactly as (1/den) * SUM_p c[p] * log2(p)     *)
(* over the primes p of Primes.                                            *)
(***************************************************************************)
EXTENDS Integers, Sequences, FiniteSets, TLC

VARIABLES
    t, x, y, neural,            \* self.data["t"|"x"|"y"|"neural"]
    bin_size, linearized,       \* self.meta["bin_size"|"linearized"]
    velocity_threshold,         \* self.meta["velocity_threshold"]
    fps_arg, shuffle_test,      \* constructor arguments fps, shuffle_test
    fps,                        \* self.meta["fps"]
    running,                    \* self.data["running"]
    occupancy_map,              \* self.data["occupancy_map"]
    occupancy_bins,             \* self.data["occupancy_bins"]
    placefields,                \* self.data["placefields"]
    placefields_normalized,     \* self.data["placefields_normalized"]
    spatial_info,               \* self.data["spatial_info"]
    placefield_centers,         \* self.data["placefield_centers"]
    spatial_info_pvals,         \* self.data["spatial_info_pvals"]
    spatial_info_z,             \* self.data["spatial_info_z"]
    phase,                      \* "new", "built", "shuffling", "error"; "args" and
                                \* "returned" around a direct spatial_information call
    caller,                     \* who runs assess_spatial_sig_parallel
    results,                    \* finished tasks of the Parallel(...) call, in
                                \* the order they completed
    last,                       \* the latest call: operation, arguments, draws
    ret,                        \* what the latest call returned
    tuning_curve, occupancy     \* arguments of a direct spatial_information call

vars == <<t, x, y, neural, bin_size, linearized, velocity_threshold, fps_arg,
          shuffle_test, fps, running, occupancy_map, occupancy_bins,
          placefields, placefields_normalized, spatial_info,
          placefield_centers, spatial_info_pvals, spatial_info_z, phase,
          caller, results, last, ret, tuning_curve, occupancy>>

-----------------------------------------------------------------------------
(* Bounds of the model.                                                    *)

\* samples of a recording that are enumerated one by one (its head)
MaxHead == 3
\* long recordings have MinShift .. MinShift + MaxExtra samples
MaxExtra == 1
\* bins of a directly supplied tuning curve
MaxBins == 3
\* largest occupancy count / activity sum of a directly supplied bin
MaxCount == 2

\* lower end of the shuffle offset: randint(300, ...)
MinShift == 300
\* default of assess_spatial_sig's n_shuffles
DefaultShuffles == 500

-----------------------------------------------------------------------------
(* Arithmetic helpers.                                                     *)

Abs(a) == IF a < 0 THEN -a ELSE a

RECURSIVE Gcd(_, _)
Gcd(a, b) == IF b = 0 THEN a ELSE Gcd(b, a % b)

RECURSIVE SumOver(_, _)
\* sum of f[i] for i in the finite set S
SumOver(S, f) ==
    IF S = {} THEN 0
    ELSE LET i == CHOOSE j \in S : TRUE IN f[i] + SumOver(S \ {i}, f)

Min(S) == CHOOSE a \in S : \A b \in S : a <= b
Max(S) == CHOOSE a \in S : \A b \in S : a >= b

Range(s) == {s[i] : i \in DOMAIN s}

RECURSIVE TupleOf(_, _)
\* the sequence <<f[1], ..., f[n]>>, each element computed once
TupleOf(f, n) == IF n = 0 THEN <<>> ELSE Append(TupleOf(f, n - 1), f[n])

RECURSIVE SumCounts(_)
\* sum of r.count over the records r of a finite set
SumCounts(S) ==
    IF S = {} THEN 0
    ELSE LET r == CHOOSE q \in S : TRUE IN r.count + SumCounts(S \ {r})

(* floats *)
Num(n, d) ==
    LET g == Gcd(Abs(n), d) IN [k |-> "num", n |-> n \div g, d |-> d \div g]
NaN == [k |-> "nan", n |-> 0, d |-> 0]
Inf == [k |-> "inf", n |-> 1, d |-> 0]
NegInf == [k |-> "inf", n |-> -1, d |-> 0]

\* a / b for an integer a and an integer b >= 0, as numpy divides floats
Divide(a, b) ==
    IF b = 0 THEN (IF a = 0 THEN NaN ELSE IF a > 0 THEN Inf ELSE NegInf)
    ELSE Num(a, b)

\* a < b on floats; any comparison with not-a-number is false
FloatLess(a, b) ==
    IF a.k = "nan" \/ b.k = "nan" THEN FALSE
    ELSE IF a.k = "inf" THEN (a.n < 0 /\ ~(b.k = "inf" /\ b.n < 0))
    ELSE IF b.k = "inf" THEN b.n > 0
    ELSE a.n * b.d < b.n * a.d

\* round(n / d), halves to the even neighbour, for n >= 0 and d > 0
RoundHalfEven(n, d) ==
    LET q == n \div d
        r == n % d
    IN  IF 2 * r < d THEN q
        ELSE IF 2 * r > d THEN q + 1
        ELSE IF q % 2 = 0 THEN q ELSE q + 1

-----------------------------------------------------------------------------
(* spatial_bin (CaImaging.Behavior), by its contract: a histogram of the   *)
(* positions, weighted when weights are given, over the edges in bins, or  *)
(* over edges of width bin_size_cm spanning the positions when bins is     *)
(* None.  The last bin is closed on the right and a position outside the   *)
(* edges is dropped, as numpy's histogram does.  A 2-d histogram is kept   *)
(* flattened, row (y bin) by row.                                          *)

NoBins == [x |-> <<>>, y |-> <<>>]
NoWeights == <<>>

\* edges lo, lo + b, ... up to the first one >= hi: at least one bin
Edges(vals, b) ==
    IF vals = <<>> THEN <<0, b>>
    ELSE LET lo == Min(Range(vals))
             hi == Max(Range(vals))
             nb == IF hi = lo THEN 1 ELSE (hi - lo + b - 1) \div b
         IN  [k \in 1..(nb + 1) |-> lo + (k - 1) * b]

\* 1-based bin of v among the edges e, 0 when v lies outside them
BinOf(e, v) ==
    IF v < e[1] \/ v > e[Len(e)] THEN 0
    ELSE IF v = e[Len(e)] THEN Len(e) - 1
    ELSE Cardinality({k \in 1..Len(e) : e[k] <= v})

NBins(bins, one_dim) ==
    IF one_dim THEN Len(bins.x) - 1 ELSE (Len(bins.x) - 1) * (Len(bins.y) - 1)

spatial_bin(xs, ys, bin_size_cm, weights, one_dim, bins) ==
    LET edges == IF bins # NoBins THEN bins
                 ELSE IF one_dim THEN [x |-> Edges(xs, bin_size_cm), y |-> <<>>]
                 ELSE [x |-> Edges(xs, bin_size_cm), y |-> Edges(ys, bin_size_cm)]
        nx == Len(edges.x) - 1
        Cell(i) ==
            LET xb == BinOf(edges.x, xs[i])
                yb == IF one_dim THEN 1 ELSE BinOf(edges.y, ys[i])
            IN  IF xb = 0 \/ yb = 0 THEN 0 ELSE (yb - 1) * nx + xb
        w == IF weights = NoWeights THEN [i \in DOMAIN xs |-> 1] ELSE weights
    IN  [H |-> TupleOf([c \in 1..NBins(edges, one_dim) |->
                           SumOver({i \in DOMAIN xs : Cell(i) = c}, w)],
                       NBins(edges, one_dim)),
         bins |-> edges]

-----------------------------------------------------------------------------
(* The object.  self is the record of the fields the methods read.         *)

\* a[mask] for a boolean mask
Mask(a, mask) ==
    LET I == SelectSeq([i \in 1..Len(mask) |-> i], LAMBDA i : mask[i])
    IN  [k \in DOMAIN I |-> a[I[k]]]

\* np.roll(a, shift): element i moves to i + shift, wrapping around
roll(a, shift) ==
    LET N == Len(a) IN [i \in 1..N |-> a[((i - 1 - shift) % N) + 1]]

\* random.randint(a, b): any integer of a..b, both ends included; raises
\* ValueError when the range is empty
randint(a, b) == a..b

\* consecutive_dist(..., zero_pad=True) / np.diff(t/1000, prepend=0) compared
\* with the threshold.  The velocity of sample i is d / (dt / 1000): with
\* dt = 0 it is inf when d > 0 and not-a-number when d = 0.
velocity_above(self, i) ==
    LET d2 == IF i = 1 THEN 0
              ELSE (self.x[i] - self.x[i-1]) * (self.x[i] - self.x[i-1])
                 + (self.y[i] - self.y[i-1]) * (self.y[i] - self.y[i-1])
        dt == IF i = 1 THEN self.t[1] ELSE self.t[i] - self.t[i-1]
        th == self.velocity_threshold
    IN  IF dt = 0 THEN d2 > 0
        ELSE d2 * 1000000 > th * th * dt * dt

\* self.data["velocity"] > self.meta["velocity_threshold"], as a tuple
compute_running(self) == [i \in DOMAIN self.t |-> velocity_above(self, i)] \o <<>>

\* get_fps: round(1 / (mean(diff(t)) / 1000)).  The mean of no interval is
\* not-a-number and the reciprocal of a zero mean is inf: round() raises on both.
get_fps(self) ==
    LET N == Len(self.t)
        span == self.t[N] - self.t[1]
    IN  IF N < 2 \/ span = 0 THEN [ok |-> FALSE, v |-> 0]
        ELSE [ok |-> TRUE, v |-> RoundHalfEven(1000 * (N - 1), span)]

\* make_occupancy_map without the running mask
make_occupancy_map_unfiltered(self) ==
    spatial_bin(self.x, self.y, self.bin_size, NoWeights, self.linearized, NoBins)

make_occupancy_map(self) ==
    spatial_bin(Mask(self.x, self.running), Mask(self.y, self.running),
                self.bin_size, NoWeights, self.linearized, NoBins)

\* make_place_field without bins=...: spatial_bin computes edges of its own
place_field_bins_recomputed(self) == NoBins

\* the bins argument make_place_field hands to spatial_bin
place_field_bins(self) == self.occupancy_bins

\* the activity trace make_place_field bins
place_field_trace(self, neuron, shuffle, random_shift) ==
    IF shuffle THEN roll(self.neural[neuron], random_shift)
    ELSE self.neural[neuron]

\* a division that fills the bins of occupancy 0 with 0
normalize_by_occupancy_zero_fill(pf, occupancy_map_) ==
    TupleOf([i \in DOMAIN pf |->
                IF occupancy_map_[i] = 0 THEN Num(0, 1)
                ELSE Divide(pf[i], occupancy_map_[i])], Len(pf))

\* pf / self.data["occupancy_map"]
normalize_by_occupancy(pf, occupancy_map_) ==
    TupleOf([i \in DOMAIN pf |-> Divide(pf[i], occupancy_map_[i])], Len(pf))

\* make_place_field without weights=...: a histogram of positions
make_place_field_unweighted(self, neuron, normalize_by_occ, shuffle, random_shift) ==
    LET pf == spatial_bin(Mask(self.x, self.running), Mask(self.y, self.running),
                          self.bin_size, NoWeights, self.linearized,
                          self.occupancy_bins).H
    IN  IF normalize_by_occ
        THEN TupleOf([i \in DOMAIN pf |-> Divide(pf[i], self.occupancy_map[i])], Len(pf))
        ELSE TupleOf([i \in DOMAIN pf |-> Num(pf[i], 1)], Len(pf))

make_place_field(self, neuron, normalize_by_occ, shuffle, random_shift) ==
    LET neural_data == place_field_trace(self, neuron, shuffle, random_shift)
        pf == spatial_bin(Mask(self.x, self.running), Mask(self.y, self.running),
                          self.bin_size, Mask(neural_data, self.running),
                          self.linearized, place_field_bins(self)).H
    IN  IF normalize_by_occ THEN normalize_by_occupancy(pf, self.occupancy_map)
        ELSE TupleOf([i \in DOMAIN pf |-> Num(pf[i], 1)], Len(pf))

make_all_place_fields(self, normalize) ==
    [neuron \in DOMAIN self.neural |->
        make_place_field(self, neuron, normalize, FALSE, 0)]

\* np.argmax (0-based): the first not-a-number if there is one, else the
\* first largest value
argmax(pf) ==
    LET nans == {i \in DOMAIN pf : pf[i].k = "nan"}
        tops == {i \in DOMAIN pf : \A j \in DOMAIN pf : ~FloatLess(pf[i], pf[j])}
    IN  IF nans # {} THEN Min(nans) - 1 ELSE Min(tops) - 1

find_pf_centers(self) ==
    [n \in DOMAIN self.placefields_normalized |->
        argmax(self.placefields_normalized[n])]

-----------------------------------------------------------------------------
(* spatial_information.  With activity sums a_i and occupancies o_i of the  *)
(* visited bins, A = SUM a_i and O = SUM o_i, the code's                    *)
(*   sum(prob * (rate / mrate) * log2(rate / mrate)) over rate > 0          *)
(* is SUM (a_i / A) * log2(a_i * O / (o_i * A)) over a_i > 0, which is      *)
(* (1/A) * SUM_p c[p] * log2(p) with                                        *)
(*   c[p] = SUM a_i * (v_p(a_i) + v_p(O) - v_p(o_i) - v_p(A)),              *)
(* v_p the exponent of the prime p.                                         *)

Primes == <<2, 3, 5, 7, 11, 13>>
\* round(100000 * log2(p)) for the primes of Primes
Log2Fixed == <<100000, 158496, 232193, 280735, 345943, 370044>>

RECURSIVE Val(_, _)
Val(n, p) == IF n = 0 THEN 0 ELSE IF n % p = 0 THEN 1 + Val(n \div p, p) ELSE 0

RECURSIVE GcdSeq(_, _)
GcdSeq(c, g) == IF c = <<>> THEN g ELSE GcdSeq(Tail(c), Gcd(Abs(Head(c)), g))

SIZero == [k |-> "num", den |-> 1, c |-> [p \in DOMAIN Primes |-> 0]]
SINaN == [k |-> "nan", den |-> 0, c |-> [p \in DOMAIN Primes |-> 0]]

\* (1/den) * SUM c[p] * log2(p), in lowest terms
SIValue(den, c) ==
    LET g == GcdSeq(c, den)
    IN  [k |-> "num", den |-> den \div g, c |-> [p \in DOMAIN c |-> c[p] \div g]]

\* a < b on spatial information values: exact for equal values, else the
\* sign of the difference computed with Log2Fixed
SILess(a, b) ==
    IF a.k = "nan" \/ b.k = "nan" THEN FALSE
    ELSE LET diff == [p \in DOMAIN Primes |-> b.den * a.c[p] - a.den * b.c[p]]
         IN  /\ \E p \in DOMAIN Primes : diff[p] # 0
             /\ SumOver(DOMAIN Primes, [p \in DOMAIN Primes |-> diff[p] * Log2Fixed[p]]) < 0

\* spatial_information without the occupancy > 0 filter
all_bins(occupancy_) == DOMAIN occupancy_

\* bins kept by tuning_curve[occupancy > 0]
visited_bins(occupancy_) == {i \in DOMAIN occupancy_ : occupancy_[i] > 0}

spatial_information(tuning_curve_, occupancy_) ==
    LET V == visited_bins(occupancy_)
        index == {i \in V : (tuning_curve_[i].k = "num" /\ tuning_curve_[i].n > 0)
                            \/ (tuning_curve_[i].k = "inf" /\ tuning_curve_[i].n > 0)}
        a == [i \in DOMAIN tuning_curve_ |-> tuning_curve_[i].n]
        A == SumOver(V, a)
        O == SumOver(V, occupancy_)
        c == [p \in DOMAIN Primes |->
                SumOver(index, [i \in DOMAIN a |->
                    a[i] * (Val(a[i], Primes[p]) + Val(O, Primes[p])
                            - Val(occupancy_[i], Primes[p]) - Val(A, Primes[p]))])]
    IN  IF index = {} THEN SIZero
        ELSE IF \E i \in V : tuning_curve_[i].k # "num" THEN SINaN
        ELSE SIValue(A, c)

-----------------------------------------------------------------------------
(* assess_spatial_sig.  draws maps each offset that was drawn to the number *)
(* of the n_shuffles iterations that drew it: p_value and SI_z depend on    *)
(* the drawn offsets through these counts only.                             *)

\* shuffled_SIs, one record for each offset drawn: the offset, how many
\* iterations drew it, and the spatial information of the shifted trace
shuffled_SIs_of(self, neuron, draws) ==
    {[shift |-> s, count |-> draws[s],
      si |-> spatial_information(make_place_field(self, neuron, FALSE, TRUE, s),
                                 self.occupancy_map)] : s \in DOMAIN draws}

\* a p-value that counts the null values equal to the true value as well
p_value_of_ties_counted(true_SI, shuffled_SIs, n_shuffles) ==
    Divide(SumCounts({r \in shuffled_SIs : ~SILess(r.si, true_SI)}), n_shuffles)

\* np.sum(true < shuffled_SIs) / n_shuffles
p_value_of(true_SI, shuffled_SIs, n_shuffles) ==
    Divide(SumCounts({r \in shuffled_SIs : SILess(true_SI, r.si)}), n_shuffles)

\* (true - mean(shuffled_SIs)) / std(shuffled_SIs).  The std is 0 exactly when
\* all null values are equal; the quotient is then 0/0 or +-inf.  A finite
\* quotient is kept as the expression it is computed from.
SI_z_of(true_SI, shuffled_SIs) ==
    LET vals == {r.si : r \in shuffled_SIs}
        kind == IF true_SI.k = "nan" \/ \E v \in vals : v.k = "nan" THEN "nan"
                ELSE IF Cardinality(vals) > 1 THEN "num"
                ELSE IF vals = {true_SI} THEN "nan"
                ELSE IF \E v \in vals : SILess(true_SI, v) THEN "-inf"
                ELSE "inf"
    IN  [k |-> kind, si |-> true_SI, null |-> shuffled_SIs]

assess_spatial_sig(self, neuron, n_shuffles, draws) ==
    LET shuffled_SIs == shuffled_SIs_of(self, neuron, draws)
    IN  [p_value |-> p_value_of(self.spatial_info[neuron], shuffled_SIs, n_shuffles),
         SI_z |-> SI_z_of(self.spatial_info[neuron], shuffled_SIs)]

\* the offsets make_place_field(shuffle=True) can draw
shift_range(self) == randint(MinShift, Len(self.neural[1]))

\* outcomes of n draws from shifts that the model follows: all draws alike,
\* or two offsets sharing the draws evenly
Draws(n, shifts) ==
    {[s \in {s1} |-> n] : s1 \in shifts}
    \cup {[s \in {pr[1], pr[2]} |-> IF s = pr[1] THEN n - (n \div 2) ELSE n \div 2] :
            pr \in {q \in shifts \X shifts : q[1] # q[2] /\ n >= 2}}

\* the tasks' values in the order the tasks completed
parallel_results_as_completed(results_) ==
    [k \in DOMAIN results_ |-> results_[k].value]

\* what Parallel(...)(...) returns: the tasks' values in the order of its
\* input, neuron 0 first, whatever the order the tasks completed in
parallel_results(results_) ==
    [i \in 1..Len(results_) |->
        (CHOOSE r \in Range(results_) : r.neuron = i).value]

\* pvals, SI_z = zip(*results)
gather(results_) ==
    LET ordered == parallel_results(results_)
    IN  [pvals |-> [i \in DOMAIN ordered |-> ordered[i].p_value],
         SI_z |-> [i \in DOMAIN ordered |-> ordered[i].SI_z]]

-----------------------------------------------------------------------------
(* Inputs.                                                                 *)

\* positions (x, y) in cm
Points == {<<0, 0>>, <<2, 0>>, <<3, 2>>}
\* inter-sample intervals in ms
Intervals == {0, 100, 200, 3000}
\* activity samples
Activities == {0, 2}
BinSizes == {1, 2}
\* the fps argument: <<>> is None
FpsArgs == {<<>>, <<30>>}
\* n_shuffles of a direct assess_spatial_sig call
ShuffleCounts == {1, DefaultShuffles}

\* the first L positions of a recording, starting at the origin
Heads(L) == {h \in [1..L -> Points] : h[1] = <<0, 0>>}
\* heads that move at every sample
MovingHeads(L) == {h \in Heads(L) : \A i \in 2..L : h[i] # h[i-1]}

\* activity traces of N samples: constant, or one event at sample k
Traces(N, L) ==
    {[i \in 1..N |-> 2]}
    \cup {[i \in 1..N |-> IF i = k THEN 2 ELSE 0] : k \in 2..L}

NoCall ==
    [op |-> "none", neuron |-> 0, normalize_by_occ |-> FALSE, shuffle |-> FALSE,
     n_shuffles |-> 0, shifts |-> {}, bins |-> NoBins, failed |-> FALSE,
     caller |-> "none", tasks |-> <<>>]

Unbuilt ==
    /\ fps = 0
    /\ running = <<>>
    /\ occupancy_map = <<>>
    /\ occupancy_bins = NoBins
    /\ placefields = <<>>
    /\ placefields_normalized = <<>>
    /\ spatial_info = <<>>
    /\ placefield_centers = <<>>
    /\ spatial_info_pvals = <<>>
    /\ spatial_info_z = <<>>
    /\ caller = "none"
    /\ results = <<>>
    /\ last = NoCall
    /\ ret = <<>>

\* short recordings: every head, interval, activity trace of one neuron
InitShort ==
    \E L \in 1..MaxHead : \E head \in Heads(L) : \E dt \in Intervals :
    \E a \in [1..L -> Activities] :
        /\ t = [i \in 1..L |-> (i - 1) * dt]
        /\ x = [i \in 1..L |-> head[i][1]]
        /\ y = [i \in 1..L |-> head[i][2]]
        /\ neural = <<a>>
        /\ bin_size \in BinSizes
        /\ linearized \in BOOLEAN
        /\ fps_arg \in FpsArgs
        /\ shuffle_test = FALSE

\* long recordings of two neurons, sampled every 100 ms: the animal moves at
\* each of its first MaxHead + 1 samples, then stays where it is
InitLong ==
    \E N \in MinShift..(MinShift + MaxExtra) : \E head \in MovingHeads(MaxHead + 1) :
    \E a1 \in Traces(N, MaxHead + 2) : \E a2 \in Traces(N, 2) :
        /\ t = [i \in 1..N |-> (i - 1) * 100]
        /\ x = [i \in 1..N |-> head[IF i <= MaxHead + 1 THEN i ELSE MaxHead + 1][1]]
        /\ y = [i \in 1..N |-> head[IF i <= MaxHead + 1 THEN i ELSE MaxHead + 1][2]]
        /\ neural = <<a1, a2>>
        /\ bin_size = 1
        /\ linearized \in BOOLEAN
        /\ fps_arg = <<>>
        /\ shuffle_test \in IF N = MinShift /\ linearized THEN BOOLEAN ELSE {FALSE}

Init ==
    /\ phase = "new"
    /\ InitShort \/ InitLong
    /\ velocity_threshold = 10
    /\ Unbuilt
    /\ tuning_curve = <<>>
    /\ occupancy = <<>>

-----------------------------------------------------------------------------
(* Operations.                                                             *)

SelfRec(running_, occupancy_map_, occupancy_bins_, placefields_normalized_, spatial_info_) ==
    [t |-> t, x |-> x, y |-> y, neural |-> neural, bin_size |-> bin_size,
     linearized |-> linearized, velocity_threshold |-> velocity_threshold,
     running |-> running_, occupancy_map |-> occupancy_map_,
     occupancy_bins |-> occupancy_bins_,
     placefields_normalized |-> placefields_normalized_,
     spatial_info |-> spatial_info_]

\* the constructed object
Self == SelfRec(running, occupancy_map, occupancy_bins, placefields_normalized,
                spatial_info)

\* the object is constructed and no call is under way or has just returned
Idle == phase = "built" /\ last.op \in {"__init__", "idle"}

data_unchanged ==
    UNCHANGED <<t, x, y, neural, bin_size, linearized, velocity_threshold,
                fps_arg, shuffle_test, fps, running, occupancy_map,
                occupancy_bins, placefields, placefields_normalized,
                spatial_info, placefield_centers>>

\* PlaceFields(t, x, y, neural_data, ...) with circular=False, nbins=None.
\* Each field is computed once, in the order of the constructor's statements.
PlaceFields_init ==
    /\ phase = "new"
    /\ LET s0 == SelfRec(<<>>, <<>>, NoBins, <<>>, <<>>)
           f == IF fps_arg = <<>> THEN get_fps(s0) ELSE [ok |-> TRUE, v |-> fps_arg[1]]
       IN  IF ~f.ok
           THEN /\ phase' = "error"
                /\ last' = [NoCall EXCEPT !.op = "__init__", !.failed = TRUE]
                /\ UNCHANGED <<fps, running, occupancy_map, occupancy_bins,
                               placefields, placefields_normalized, spatial_info,
                               placefield_centers, caller, results>>
           ELSE \E s1 \in {[s0 EXCEPT !.running = compute_running(s0)]} :
                \E om \in {make_occupancy_map(s1)} :
                \E s2 \in {[s1 EXCEPT !.occupancy_map = om.H,
                                      !.occupancy_bins = om.bins]} :
                \E pfs \in {make_all_place_fields(s2, FALSE)} :
                \E pfn \in {make_all_place_fields(s2, TRUE)} :
                /\ fps' = f.v
                /\ running' = s1.running
                /\ occupancy_map' = om.H
                /\ occupancy_bins' = om.bins
                /\ placefields' = pfs
                /\ placefields_normalized' = pfn
                /\ spatial_info' = [n \in DOMAIN pfs |->
                                      spatial_information(pfs[n], om.H)]
                /\ placefield_centers' =
                       find_pf_centers([s2 EXCEPT !.placefields_normalized = pfn])
                /\ last' = [NoCall EXCEPT !.op = "__init__", !.bins = place_field_bins(s2)]
                /\ IF shuffle_test
                   THEN /\ phase' = "shuffling"
                        /\ caller' = "init"
                        /\ results' = <<>>
                   ELSE /\ phase' = "built"
                        /\ UNCHANGED <<caller, results>>
    /\ UNCHANGED <<t, x, y, neural, bin_size, linearized, velocity_threshold,
                   fps_arg, shuffle_test, spatial_info_pvals, spatial_info_z,
                   ret, tuning_curve, occupancy>>

\* make_place_field rolling the stored trace in place
make_place_field_call_in_place(neuron, normalize_by_occ, shuffle) ==
    /\ Idle
    /\ \E random_shift \in IF shuffle THEN shift_range(Self) ELSE {0} :
        /\ neural' = [neural EXCEPT ![neuron] = place_field_trace(Self, neuron, shuffle, random_shift) \o <<>>]
        /\ ret' = make_place_field(Self, neuron, normalize_by_occ, shuffle, random_shift)
        /\ last' = [NoCall EXCEPT !.op = "make_place_field", !.neuron = neuron,
                                  !.normalize_by_occ = normalize_by_occ,
                                  !.shuffle = shuffle,
                                  !.bins = place_field_bins(Self),
                                  !.shifts = IF shuffle THEN {random_shift} ELSE {}]
    /\ UNCHANGED <<t, x, y, bin_size, linearized, velocity_threshold, fps_arg,
                   shuffle_test, fps, running, occupancy_map, occupancy_bins,
                   placefields, placefields_normalized, spatial_info,
                   placefield_centers, spatial_info_pvals, spatial_info_z, phase,
                   caller, results, tuning_curve, occupancy>>

\* a call of make_place_field(neuron, normalize_by_occ=..., shuffle=...)
make_place_field_call(neuron, normalize_by_occ, shuffle) ==
    /\ Idle
    /\ LET shifts == IF shuffle THEN shift_range(Self) ELSE {0}
           call == [NoCall EXCEPT !.op = "make_place_field", !.neuron = neuron,
                                  !.normalize_by_occ = normalize_by_occ,
                                  !.shuffle = shuffle]
       IN  IF shifts = {}
           THEN /\ ret' = <<>>
                /\ last' = [call EXCEPT !.failed = TRUE]
           ELSE \E random_shift \in shifts :
                /\ ret' = make_place_field(Self, neuron, normalize_by_occ, shuffle,
                                           random_shift)
                /\ last' = [call EXCEPT !.bins = place_field_bins(Self),
                                        !.shifts = IF shuffle THEN {random_shift} ELSE {}]
    /\ data_unchanged
    /\ UNCHANGED <<spatial_info_pvals, spatial_info_z, phase, caller, results,
                   tuning_curve, occupancy>>

MakePlaceField ==
    \E neuron \in DOMAIN neural : \E normalize_by_occ \in BOOLEAN :
        make_place_field_call(neuron, normalize_by_occ, FALSE)

MakePlaceFieldShuffle ==
    \E neuron \in DOMAIN neural : \E normalize_by_occ \in BOOLEAN :
        make_place_field_call(neuron, normalize_by_occ, TRUE)

\* a call of assess_spatial_sig(neuron, n_shuffles)
AssessSpatialSig ==
    /\ Idle
    /\ \E neuron \in DOMAIN neural : \E n_shuffles \in ShuffleCounts :
       LET shifts == shift_range(Self)
           call == [NoCall EXCEPT !.op = "assess_spatial_sig", !.neuron = neuron,
                                  !.shuffle = TRUE, !.n_shuffles = n_shuffles]
       IN  IF shifts = {}
           THEN /\ ret' = <<>>
                /\ last' = [call EXCEPT !.failed = TRUE]
           ELSE \E draws \in Draws(n_shuffles, shifts) :
                /\ ret' = assess_spatial_sig(Self, neuron, n_shuffles, draws)
                /\ last' = [call EXCEPT !.bins = place_field_bins(Self),
                                        !.shifts = DOMAIN draws]
    /\ data_unchanged
    /\ UNCHANGED <<spatial_info_pvals, spatial_info_z, phase, caller, results,
                   tuning_curve, occupancy>>

\* a call of assess_spatial_sig_parallel(): one task per neuron is handed out
AssessSpatialSigParallel ==
    /\ Idle
    /\ phase' = "shuffling"
    /\ caller' = "user"
    /\ results' = <<>>
    /\ ret' = <<>>
    /\ last' = [NoCall EXCEPT !.op = "dispatch", !.caller = "user"]
    /\ data_unchanged
    /\ UNCHANGED <<spatial_info_pvals, spatial_info_z, tuning_curve, occupancy>>

\* the task delayed(self.assess_spatial_sig)(i) runs to its end.  A task that
\* raises aborts the batch, and the constructor with it.
Task(i) ==
    /\ phase = "shuffling"
    /\ \A k \in DOMAIN results : results[k].neuron # i
    /\ LET shifts == shift_range(Self)
           call == [NoCall EXCEPT !.op = "task", !.neuron = i, !.shuffle = TRUE,
                                  !.n_shuffles = DefaultShuffles, !.caller = caller]
       IN  IF shifts = {}
           THEN /\ phase' = IF caller = "init" THEN "error" ELSE "built"
                /\ caller' = "none"
                /\ results' = <<>>
                /\ last' = [call EXCEPT !.failed = TRUE]
           ELSE \E draws \in Draws(DefaultShuffles, shifts) :
                /\ results' = Append(results,
                       [neuron |-> i, draws |-> draws,
                        value |-> assess_spatial_sig(Self, i, DefaultShuffles, draws)])
                /\ last' = [call EXCEPT !.bins = place_field_bins(Self),
                                        !.shifts = DOMAIN draws]
                /\ UNCHANGED <<phase, caller>>
    /\ data_unchanged
    /\ UNCHANGED <<spatial_info_pvals, spatial_info_z, ret, tuning_curve, occupancy>>

RunTask == \E i \in DOMAIN neural : Task(i)

\* every task has finished: Parallel returns, the results are unzipped and
\* returned, and stored when the constructor made the call
Gather ==
    /\ phase = "shuffling"
    /\ Len(results) = Len(neural)
    /\ LET out == gather(results)
       IN  /\ IF caller = "init"
              THEN /\ spatial_info_pvals' = out.pvals
                   /\ spatial_info_z' = out.SI_z
                   /\ ret' = <<>>
              ELSE /\ ret' = out
                   /\ UNCHANGED <<spatial_info_pvals, spatial_info_z>>
           /\ last' = [NoCall EXCEPT !.op = "assess_spatial_sig_parallel",
                          !.caller = caller, !.n_shuffles = DefaultShuffles,
                          !.tasks = [k \in DOMAIN results |->
                                        [neuron |-> results[k].neuron,
                                         draws |-> results[k].draws]]]
    /\ phase' = "built"
    /\ caller' = "none"
    /\ results' = <<>>
    /\ data_unchanged
    /\ UNCHANGED <<tuning_curve, occupancy>>

\* the call has returned and the caller has taken its result
Return ==
    /\ phase = "built"
    /\ ~Idle
    /\ last' = [NoCall EXCEPT !.op = "idle"]
    /\ ret' = <<>>
    /\ data_unchanged
    /\ UNCHANGED <<spatial_info_pvals, spatial_info_z, phase, caller, results,
                   tuning_curve, occupancy>>

Next ==
    \/ PlaceFields_init
    \/ MakePlaceField
    \/ MakePlaceFieldShuffle
    \/ AssessSpatialSig
    \/ AssessSpatialSigParallel
    \/ RunTask
    \/ Gather
    \/ Return

Spec == Init /\ [][Next]_vars

-----------------------------------------------------------------------------
(* spatial_information called directly, on any tuning curve and occupancy. *)

\* entries of a supplied tuning curve
CurveValues == {Num(v, 1) : v \in 0..MaxCount} \cup {NaN, Inf}

InitSI ==
    /\ phase = "args"
    /\ \E nb \in 1..MaxBins :
        /\ tuning_curve \in [1..nb -> CurveValues]
        /\ occupancy \in [1..nb -> 0..MaxCount]
    /\ t = <<>> /\ x = <<>> /\ y = <<>> /\ neural = <<>>
    /\ bin_size = 1 /\ linearized = TRUE /\ velocity_threshold = 10
    /\ fps_arg = <<>> /\ shuffle_test = FALSE
    /\ Unbuilt

CallSpatialInformation ==
    /\ phase = "args"
    /\ phase' = "returned"
    /\ ret' = spatial_information(tuning_curve, occupancy)
    /\ last' = [NoCall EXCEPT !.op = "spatial_information"]
    /\ data_unchanged
    /\ UNCHANGED <<spatial_info_pvals, spatial_info_z, caller, results,
                   tuning_curve, occupancy>>

NextSI == CallSpatialInformation

SpecSI == InitSI /\ [][NextSI]_vars

-----------------------------------------------------------------------------
(* Properties.                                                             *)

Constructed == phase \in {"built", "shuffling"}
RunningSamples == {i \in DOMAIN running : running[i]}
SumSeq(s) == SumOver(DOMAIN s, s)

\* C1: the occupancy map built at construction has no negative bin and its
\* bins sum to the number of samples whose running flag is true.
C1_OccupancyMass ==
    Constructed =>
        /\ \A c \in DOMAIN occupancy_map : occupancy_map[c] >= 0
        /\ SumSeq(occupancy_map) = Cardinality(RunningSamples)

\* some samples run, some do not, and the map has an empty and a filled bin
C1_Witness ==
    /\ phase = "built"
    /\ Cardinality(RunningSamples) >= 2
    /\ Cardinality(RunningSamples) < Len(running) - 1
    /\ \E c \in DOMAIN occupancy_map : occupancy_map[c] = 0
    /\ \E c \in DOMAIN occupancy_map : occupancy_map[c] > 0

\* C2: for every neuron the bins of its raw tuning curve sum to the neuron's
\* activity summed over the samples whose running flag is true.
C2_ActivityMass ==
    Constructed =>
        \A n \in DOMAIN placefields :
            /\ \A c \in DOMAIN placefields[n] :
                   placefields[n][c].k = "num" /\ placefields[n][c].d = 1
            /\ SumOver(DOMAIN placefields[n],
                       [c \in DOMAIN placefields[n] |-> placefields[n][c].n])
               = SumOver(RunningSamples, neural[n])

\* a neuron active at a running sample, silent at another, active at rest
C2_Witness ==
    /\ phase = "built"
    /\ \E n \in DOMAIN neural :
        /\ \E i \in RunningSamples : neural[n][i] > 0
        /\ \E i \in RunningSamples : neural[n][i] = 0
        /\ \E i \in DOMAIN running : ~running[i] /\ neural[n][i] > 0

ShuffleCall ==
    /\ last.op \in {"make_place_field", "assess_spatial_sig", "task"}
    /\ last.shuffle

\* C3: on a recording of N > 300 samples a shuffling call never fails to draw
\* its offset, and every offset it draws lies in 300 .. N - 1.
C3_ShiftBelowN ==
    (ShuffleCall /\ Len(neural[1]) > MinShift) =>
        /\ ~last.failed
        /\ \A s \in last.shifts : MinShift <= s /\ s < Len(neural[1])


\* the arrays assess_spatial_sig_parallel returned (stored by the constructor)
ParallelOut ==
    IF last.caller = "init"
    THEN [pvals |-> spatial_info_pvals, SI_z |-> spatial_info_z]
    ELSE ret

\* C4: whatever the order the per-neuron tasks completed in, entry i of the
\* p-value array and of the z-score array returned by
\* assess_spatial_sig_parallel is what the task for neuron i computed.
C4_ResultsInNeuronOrder ==
    (phase = "built" /\ last.op = "assess_spatial_sig_parallel") =>
        /\ DOMAIN ParallelOut.pvals = DOMAIN neural
        /\ DOMAIN ParallelOut.SI_z = DOMAIN neural
        /\ \A k \in DOMAIN last.tasks :
            LET i == last.tasks[k].neuron
                computed == assess_spatial_sig(Self, i, DefaultShuffles,
                                               last.tasks[k].draws)
            IN  /\ ParallelOut.pvals[i] = computed.p_value
                /\ ParallelOut.SI_z[i] = computed.SI_z

\* the task of the second neuron completed first, with another p-value
C4_Witness ==
    /\ phase = "built"
    /\ last.op = "assess_spatial_sig_parallel"
    /\ last.caller = "user"
    /\ last.tasks[1].neuron = 2
    /\ ret.pvals[1] # ret.pvals[2]

\* C5: the sampling rate stored at construction is greater than 0.
C5_FpsPositive == Constructed => fps > 0

\* C6: every normalized tuning curve is the raw one divided bin by bin by the
\* occupancy map, and a bin of occupancy 0 holds not-a-number or an infinity.
C6_NormalizedByOccupancy ==
    Constructed =>
        \A n \in DOMAIN placefields_normalized :
        \A c \in DOMAIN occupancy_map :
            /\ occupancy_map[c] > 0 =>
                   /\ placefields_normalized[n][c].k = "num"
                   /\ placefields_normalized[n][c].n * placefields[n][c].d * occupancy_map[c]
                      = placefields[n][c].n * placefields_normalized[n][c].d
            /\ occupancy_map[c] = 0 =>
                   placefields_normalized[n][c].k \in {"nan", "inf"}

\* a map with an unvisited bin and a neuron active in a visited one
C6_Witness ==
    /\ Constructed
    /\ \E c \in DOMAIN occupancy_map : occupancy_map[c] = 0
    /\ \E n \in DOMAIN placefields_normalized : \E c \in DOMAIN occupancy_map :
           occupancy_map[c] > 1 /\ placefields_normalized[n][c].n > 0

ConstantTrace(a) == \A i \in DOMAIN a : a[i] = a[1]

\* assess_spatial_sig has returned for a neuron of constant activity
AssessedConstant ==
    /\ last.op = "assess_spatial_sig"
    /\ ~last.failed
    /\ ConstantTrace(neural[last.neuron])

\* C7 as amended: for a neuron whose activity is constant over all samples
\* every null value equals the true spatial information, so the p-value is 0
\* and the z-score is 0/0, not-a-number.
C7_ConstantDegenerate ==
    AssessedConstant =>
        /\ ret.p_value = Num(0, 1)
        /\ ret.SI_z.k = "nan"
        /\ \A r \in ret.SI_z.null : r.si = ret.SI_z.si

\* the default number of shuffles, two different offsets drawn
C7_Witness ==
    /\ AssessedConstant
    /\ last.n_shuffles = DefaultShuffles
    /\ Cardinality(last.shifts) = 2

\* C7 as stated: for a neuron of constant activity the p-value is near 0.5
\* (between 1/4 and 3/4) and the z-score is a finite value.
C7_NearCentre ==
    AssessedConstant =>
        /\ FloatLess(Num(1, 4), ret.p_value)
        /\ FloatLess(ret.p_value, Num(3, 4))
        /\ ret.SI_z.k = "num"

\* the rate is the same positive value in every bin of occupancy > 0
UniformPositiveRate(tc, occ) ==
    /\ \E i \in DOMAIN occ : occ[i] > 0
    /\ \A i \in DOMAIN occ : occ[i] > 0 => tc[i].k = "num" /\ tc[i].n > 0
    /\ \A i, j \in DOMAIN occ :
           (occ[i] > 0 /\ occ[j] > 0) => tc[i].n * occ[j] = tc[j].n * occ[i]

\* C8: spatial_information returns 0 for every tuning curve whose rate is the
\* same positive value in all bins of occupancy > 0, whatever the bins of
\* occupancy 0 hold.
C8_UniformRateZero ==
    (phase = "returned" /\ UniformPositiveRate(tuning_curve, occupancy)) =>
        ret = SIZero

\* a uniform rate over two visited bins of different occupancy, and an
\* unvisited bin holding not-a-number
C8_Witness ==
    /\ phase = "returned"
    /\ UniformPositiveRate(tuning_curve, occupancy)
    /\ \E i, j \in DOMAIN occupancy : 0 < occupancy[i] /\ occupancy[i] < occupancy[j]
    /\ \E i \in DOMAIN occupancy : occupancy[i] = 0 /\ tuning_curve[i].k = "nan"

\* C9: once the object is constructed no call, and no task of the parallel
\* shuffle test in any interleaving, writes the trajectory, the running mask,
\* the activity matrix, the occupancy map, the bin edges or the stored
\* spatial information.
C9_SharedStateReadOnly ==
    [][Constructed =>
          UNCHANGED <<t, x, y, running, neural, occupancy_map, occupancy_bins,
                      spatial_info>>]_vars

\* a shuffled tuning curve of a non-constant trace was computed, shifted
C9_Witness ==
    /\ phase = "built"
    /\ last.op = "make_place_field"
    /\ last.shuffle
    /\ ~last.failed
    /\ \E s \in last.shifts : s # Len(neural[1])
    /\ ~ConstantTrace(neural[last.neuron])

\* C10: the stored bin edges are those the occupancy mapper computes from the
\* running samples, every tuning-curve computation (raw, normalized or
\* shuffled) hands exactly these edges to the binning, and every tuning curve
\* has the bins of the occupancy map.
C10_SharedBinEdges ==
    Constructed =>
        /\ occupancy_bins = make_occupancy_map(Self).bins
        /\ \A n \in DOMAIN placefields :
               /\ Len(placefields[n]) = Len(occupancy_map)
               /\ Len(placefields_normalized[n]) = Len(occupancy_map)
        /\ (last.op \in {"__init__", "make_place_field", "assess_spatial_sig", "task"}
            /\ ~last.failed) => last.bins = occupancy_bins
        /\ (last.op = "make_place_field" /\ ~last.failed) =>
               Len(ret) = Len(occupancy_map)

\* a shuffled tuning curve over a map of several bins
C10_Witness ==
    /\ phase = "built"
    /\ last.op = "make_place_field"
    /\ last.shuffle
    /\ ~last.failed
    /\ Len(occupancy_map) >= 3
    /\ \E c \in DOMAIN ret : ret[c].n > 0

====
